---- MODULE Spec2Model ----
(***************************************************************************)
(* Notification dispatch pipeline of the error-tracker webhook service:    *)
(* the sliding-window RateLimiter (app/core/rate_limiter.py), the webhook  *)
(* handlers receive_error / test_notification (app/routes/webhook.py),     *)
(* the secret check (app/core/security.py) and the delivery step and       *)
(* message formatter of TelegramService (app/services/telegram_service.py).*)
(*                                                                         *)
(* Time (time.time()) is a non-decreasing integer clock `now`.  Handlers   *)
(* are coroutines on one event loop: a handler runs without interruption   *)
(* up to its only await (the HTTP post to the provider), so each handler   *)
(* is two steps: the part before the await and the part after it.          *)
(***************************************************************************)
EXTENDS Integers, Sequences, FiniteSets, TLC

\* ------------------------------------------------------------------ bounds
\* RATE_LIMIT_MAX_ERRORS (capacity N) and RATE_LIMIT_WINDOW_SECONDS (W) are
\* configuration values; the model runs them small.
max_requests == 2
window_seconds == 2
\* the clock runs 0..MaxClock when the limiter is driven directly
MaxClock == 3
\* and 0..MaxDispatchClock when it is driven through the webhook handlers
MaxDispatchClock == 2

\* ------------------------------------------------------- program constants
\* Python's None where an integer is expected (reset_time's "no entries")
None == -1
\* None where a string is expected (missing header, missing fingerprint, no id)
NoneStr == "<None>"
\* settings.WEBHOOK_SECRET
WEBHOOK_SECRET == "s3cret"
HTTP_200_OK == 200
HTTP_401_UNAUTHORIZED == 401
HTTP_403_FORBIDDEN == 403
HTTP_429_TOO_MANY_REQUESTS == 429
HTTP_502_BAD_GATEWAY == 502

\* the request handlers that can be in flight at once
Procs == {"h1", "h2"}
Times == 0..MaxClock
\* values of payload.fingerprint a caller can send (Optional[str])
Fingerprints == {NoneStr, "", "global", "fpA"}
\* the rate-limit keys these fingerprints lead to
Keys == {"global", "fpA"}
\* values of the X-Webhook-Secret header
ApiKeys == {NoneStr, "", "wrong", WEBHOOK_SECRET}
\* secrets.token_hex(12): values of the random source
Tokens == {"0a1b9f3e5c7d0a1b9f3e5c7d"}
\* what the provider call can come back with: a timeout, another transport
\* error, or a response with a status code and a body
\* (ok: "true" | "false" | "missing" | "badjson")
Outcomes ==
    {[kind |-> "timeout", status |-> 0, ok |-> "missing"],
     [kind |-> "error", status |-> 0, ok |-> "missing"]}
    \cup [kind : {"response"}, status : {200},
          ok : {"true", "false", "missing", "badjson"}]
    \cup {[kind |-> "response", status |-> 500, ok |-> "true"]}

VARIABLES
    now,        \* time.time()
    _requests,  \* RateLimiter._requests: key -> list of admission timestamps
    admitLog,   \* history: admitLog[k][t] = number of is_allowed(k) calls at t that returned True
    ret,        \* the last direct RateLimiter call and what it returned
    lastDenial, \* history, per key: the last denied direct is_allowed and what followed it
    pc,         \* per handler: "idle" | "sending" (awaiting the post) | "done"
    req,        \* per handler: the request it serves
    resp,       \* per handler: the HTTP response it produced
    sendCalls,  \* per handler: number of sendMessage posts issued for its request
    payload,    \* the ErrorPayload handed to _format_message
    message     \* what _format_message returned for it (NoneStr before the call)

fmtVars == <<payload, message>>
vars == <<now, _requests, admitLog, ret, lastDenial, pc, req, resp, sendCalls, payload, message>>

\* ------------------------------------------------------- message formatter
\* Texts are strings, character for character as _format_message builds them.
\* An absent Optional[str] is NoneStr, an absent Optional[int] / float is None,
\* a dict is the sequence of its <<key, value>> items in insertion order.
MAX_STACKTRACE_LENGTH == 2000
MAX_METADATA_LENGTH == 1000
\* Telegram's message limit, and the length the overlong message is cut to
TELEGRAM_LIMIT == 4096
FINAL_CUT == 4080

\* the emoji are one character each in Python; one stand-in character each here
SEVERITY_EMOJI(severity) ==
    CASE severity = "critical" -> "R"
      [] severity = "error" -> "O"
      [] severity = "warning" -> "Y"
      [] severity = "info" -> "B"
      [] OTHER -> "W"

SEVERITY_LABEL(severity) ==
    CASE severity = "critical" -> "CRITICAL"
      [] severity = "error" -> "ERROR"
      [] severity = "warning" -> "WARNING"
      [] severity = "info" -> "INFO"
      [] OTHER -> "UNKNOWN"

\* Python truthiness of an Optional[str]
Truthy(s) == s # NoneStr /\ s # ""

\* text[:n]
Prefix(text, n) == IF Len(text) <= n THEN text ELSE SubSeq(text, 1, n)

\* text.replace(c, r) for a one-character c
RECURSIVE Replace(_, _, _)
Replace(text, c, r) ==
    IF Len(text) = 0 THEN text
    ELSE IF Len(text) = 1 THEN (IF text = c THEN r ELSE text)
    ELSE LET h == Len(text) \div 2
         IN  Replace(SubSeq(text, 1, h), c, r)
                 \o Replace(SubSeq(text, h + 1, Len(text)), c, r)

_escape(text) == Replace(Replace(Replace(text, "&", "&amp;"), "<", "&lt;"), ">", "&gt;")

\* sep.join(items)
RECURSIVE Join(_, _)
Join(items, sep) ==
    IF Len(items) = 0 THEN ""
    ELSE IF Len(items) = 1 THEN items[1]
    ELSE items[1] \o sep \o Join(Tail(items), sep)

\* the items of a list that are there when cond holds
Opt(cond, items) == IF cond THEN items ELSE <<>>

\* f"{n:02d}"
Pad2(n) == IF n < 10 THEN "0" \o ToString(n) ELSE ToString(n)

\* f"{x:.1f}" of a gauge held in tenths
Fmt1f(tenths) == ToString(tenths \div 10) \o "." \o ToString(tenths % 10)

\* timestamp.strftime("%Y-%m-%d %H:%M:%S UTC")
Strftime(ts) ==
    ToString(ts.year) \o "-" \o Pad2(ts.month) \o "-" \o Pad2(ts.day) \o " "
        \o Pad2(ts.hour) \o ":" \o Pad2(ts.minute) \o ":" \o Pad2(ts.second) \o " UTC"

\* the first 20 items of a dict
First20(items) == IF Len(items) <= 20 THEN items ELSE SubSeq(items, 1, 20)

HeaderLine(pl, error_id) ==
    SEVERITY_EMOJI(pl.severity) \o " <b>" \o SEVERITY_LABEL(pl.severity)
        \o "</b> | <code>" \o error_id \o "</code>"

LocationParts(pl) ==
    Opt(Truthy(pl.file_name), <<pl.file_name>>)
        \o Opt(pl.line_number # None, <<"line " \o ToString(pl.line_number)>>)
        \o Opt(Truthy(pl.function_name), <<"in " \o pl.function_name \o "()">>)

AppLines(pl) ==
    Opt(Truthy(pl.app_name), <<"  App: " \o _escape(pl.app_name)>>)
        \o Opt(Truthy(pl.app_version), <<"  Version: " \o _escape(pl.app_version)>>)
        \o Opt(Truthy(pl.environment), <<"  Env: " \o _escape(pl.environment)>>)
        \o Opt(Truthy(pl.service_name), <<"  Service: " \o _escape(pl.service_name)>>)
        \o Opt(Truthy(pl.component), <<"  Component: " \o _escape(pl.component)>>)

CtxLines(ctx) ==
    (IF Truthy(ctx.request_method) /\ Truthy(ctx.request_url)
     THEN <<"  " \o _escape(ctx.request_method) \o " " \o _escape(ctx.request_url)>>
     ELSE Opt(Truthy(ctx.request_url), <<"  URL: " \o _escape(ctx.request_url)>>))
        \o Opt(ctx.response_status # None,
               <<"  Status: " \o ToString(ctx.response_status)>>)
        \o Opt(Len(ctx.query_params) > 0,
               <<"  Params: " \o _escape(Join([i \in 1..Len(ctx.query_params) |->
                     ctx.query_params[i][1] \o "=" \o ctx.query_params[i][2]], ", "))>>)

UserLines(u) ==
    Opt(Truthy(u.user_id), <<"  ID: <code>" \o _escape(u.user_id) \o "</code>">>)
        \o Opt(Truthy(u.username), <<"  Username: " \o _escape(u.username)>>)
        \o Opt(Truthy(u.email), <<"  Email: " \o _escape(u.email)>>)
        \o Opt(Truthy(u.session_id),
               <<"  Session: <code>" \o _escape(u.session_id) \o "</code>">>)
        \o Opt(Truthy(u.ip_address),
               <<"  IP: <code>" \o _escape(u.ip_address) \o "</code>">>)

ResourceParts(d) ==
    Opt(d.cpu_usage # None, <<"CPU " \o Fmt1f(d.cpu_usage) \o "%">>)
        \o Opt(d.memory_usage # None, <<"MEM " \o Fmt1f(d.memory_usage) \o "%">>)
        \o Opt(d.disk_usage # None, <<"DISK " \o Fmt1f(d.disk_usage) \o "%">>)

DevLines(d) ==
    Opt(Truthy(d.hostname), <<"  Host: <code>" \o _escape(d.hostname) \o "</code>">>)
        \o Opt(Truthy(d.os),
               <<"  OS: " \o _escape(IF Truthy(d.os_version)
                                      THEN d.os \o " " \o d.os_version ELSE d.os)>>)
        \o Opt(Truthy(d.ip_address),
               <<"  IP: <code>" \o _escape(d.ip_address) \o "</code>">>)
        \o Opt(Truthy(d.architecture), <<"  Arch: " \o _escape(d.architecture)>>)
        \o Opt(Len(ResourceParts(d)) > 0,
               <<"  Resources: " \o Join(ResourceParts(d), " | ")>>)

\* a titled block with a blank line after it, left out when it has no lines
Block(title, lines) == Opt(Len(lines) > 0, <<title>> \o lines \o <<"">>)

TagsStr(tags) ==
    Join([i \in 1..Len(tags) |->
            "<code>#" \o _escape(tags[i][1]) \o ":" \o _escape(tags[i][2]) \o "</code>"],
         " ")

\* the metadata text: the first 20 items, escaped, then cut at the ceiling
MetaStr(metadata, max_metadata) ==
    LET items == First20(metadata)
        meta_str == Join([i \in 1..Len(items) |->
                            "  " \o _escape(items[i][1]) \o ": " \o _escape(items[i][2])],
                         "\n")
    IN  IF Len(meta_str) > max_metadata
        THEN Prefix(meta_str, max_metadata) \o "\n  ... (truncated)"
        ELSE meta_str

\* the stacktrace cut one character short of the ceiling
TraceStr_short(stacktrace, max_stacktrace) ==
    IF Len(stacktrace) > max_stacktrace
    THEN Prefix(stacktrace, max_stacktrace - 1) \o "\n... (truncated)"
    ELSE stacktrace

\* the stacktrace text: cut at the ceiling, before it is escaped
TraceStr(stacktrace, max_stacktrace) ==
    IF Len(stacktrace) > max_stacktrace
    THEN Prefix(stacktrace, max_stacktrace) \o "\n... (truncated)"
    ELSE stacktrace

\* the list `parts` of _format_message, in the order it is appended to
Parts(pl, error_id) ==
    <<HeaderLine(pl, error_id), "", "<b>Message:</b> " \o _escape(pl.error_message)>>
        \o Opt(Truthy(pl.error_type),
               <<"<b>Type:</b> <code>" \o _escape(pl.error_type) \o "</code>">>)
        \o Opt(Truthy(pl.error_code),
               <<"<b>Code:</b> <code>" \o _escape(pl.error_code) \o "</code>">>)
        \o Opt(Len(LocationParts(pl)) > 0,
               <<"<b>Location:</b> <code>"
                    \o _escape(Join(LocationParts(pl), " | ")) \o "</code>">>)
        \o <<"">>
        \o Block("<b>Application</b>", AppLines(pl))
        \o Opt(pl.context.present, Block("<b>Request</b>", CtxLines(pl.context)))
        \o Opt(pl.user.present, Block("<b>User</b>", UserLines(pl.user)))
        \o Opt(pl.device.present, Block("<b>Server</b>", DevLines(pl.device)))
        \o Opt(Len(pl.tags) > 0, <<"<b>Tags:</b> " \o TagsStr(pl.tags), "">>)
        \o Opt(Len(pl.metadata) > 0,
               <<"<b>Metadata</b>",
                 "<pre>" \o MetaStr(pl.metadata, MAX_METADATA_LENGTH) \o "</pre>",
                 "">>)
        \o Opt(Truthy(pl.stacktrace),
               <<"<b>Stacktrace</b>",
                 "<pre>" \o _escape(TraceStr(pl.stacktrace, MAX_STACKTRACE_LENGTH))
                     \o "</pre>",
                 "">>)
        \o <<"<i>" \o Strftime(pl.timestamp) \o "</i>">>
        \o Opt(Truthy(pl.fingerprint),
               <<"Fingerprint: <code>" \o _escape(pl.fingerprint) \o "</code>">>)

\* the final cut of the joined message
FinalCut(text) ==
    IF Len(text) > TELEGRAM_LIMIT
    THEN Prefix(text, FINAL_CUT) \o "\n\n... (truncated)"
    ELSE text

_format_message(pl, error_id) == FinalCut(Join(Parts(pl, error_id), "\n"))

\* ---- the payloads the formatter is run on
\* max_length of error_message and of stacktrace (ErrorPayload)
MaxMessage == 4000
MaxStacktrace == 10000
\* how far past the stacktrace ceiling the just-too-long stacktrace goes
Over == 1
\* length of each value of the large metadata dict, and its number of items
MetaValueLen == 60
MetaItems == 25

\* n copies of the character c
RECURSIVE Fill(_, _)
Fill(c, n) ==
    IF n = 0 THEN ""
    ELSE IF n = 1 THEN c
    ELSE LET h == Fill(c, n \div 2)
         IN  h \o h \o (IF n % 2 = 1 THEN c ELSE "")

NoContext == [present |-> FALSE, request_url |-> NoneStr, request_method |-> NoneStr,
              response_status |-> None, query_params |-> <<>>]
NoUser == [present |-> FALSE, user_id |-> NoneStr, username |-> NoneStr,
           email |-> NoneStr, session_id |-> NoneStr, ip_address |-> NoneStr]
NoDevice == [present |-> FALSE, hostname |-> NoneStr, os |-> NoneStr,
             os_version |-> NoneStr, ip_address |-> NoneStr, architecture |-> NoneStr,
             cpu_usage |-> None, memory_usage |-> None, disk_usage |-> None]
Timestamp == [year |-> 2026, month |-> 11, day |-> 2, hour |-> 9, minute |-> 30,
              second |-> 5]

\* only the required fields (severity at its default)
BarePayload ==
    [severity |-> "error", error_message |-> "boom", error_type |-> NoneStr,
     error_code |-> NoneStr, stacktrace |-> NoneStr, file_name |-> NoneStr,
     line_number |-> None, function_name |-> NoneStr, app_name |-> NoneStr,
     app_version |-> NoneStr, environment |-> NoneStr, service_name |-> NoneStr,
     component |-> NoneStr, context |-> NoContext, user |-> NoUser,
     device |-> NoDevice, tags |-> <<>>, metadata |-> <<>>,
     timestamp |-> Timestamp, fingerprint |-> NoneStr]

\* every optional field present, with markup characters in the free text
RichPayload ==
    [severity |-> "critical", error_message |-> "boom", error_type |-> "ValueError",
     error_code |-> "E<42>", stacktrace |-> NoneStr, file_name |-> "a&b.py",
     line_number |-> 7, function_name |-> "run", app_name |-> "shop",
     app_version |-> "1.2", environment |-> "prod", service_name |-> "api",
     component |-> "cart",
     context |-> [present |-> TRUE, request_url |-> "/c?a=1&b=2",
                  request_method |-> "GET", response_status |-> 500,
                  query_params |-> <<<<"a", "1">>, <<"b", "<2>">>>>],
     user |-> [present |-> TRUE, user_id |-> "u1", username |-> "al",
               email |-> "a@b.c", session_id |-> "s1", ip_address |-> "10.0.0.1"],
     device |-> [present |-> TRUE, hostname |-> "h1", os |-> "Linux",
                 os_version |-> "6.1", ip_address |-> "10.0.0.2",
                 architecture |-> "x86", cpu_usage |-> 125, memory_usage |-> None,
                 disk_usage |-> 1000],
     tags |-> <<<<"team", "core">>, <<"a&b", "x">>>>, metadata |-> <<>>,
     timestamp |-> Timestamp, fingerprint |-> NoneStr]

\* the record test_notification builds
TestPayload ==
    [BarePayload EXCEPT !.error_message = "This is a test notification from Jahiz Error Tracker",
                        !.severity = "info", !.error_type = "TestNotification",
                        !.app_name = "Jahiz Error Tracker", !.environment = "test"]

Messages == {"boom", "a<b & c>d", Fill("x", MaxMessage)}
Stacktraces ==
    {NoneStr, "Traceback <module>",
     Fill("s", MAX_STACKTRACE_LENGTH),
     Fill("s", MAX_STACKTRACE_LENGTH + Over),
     Fill("<", MaxStacktrace)}
\* metadata dicts, keys and values as str() gives them
Metadatas ==
    {<<>>,
     <<<<"user", "42">>, <<"k&", "<v>">>>>,
     [i \in 1..MetaItems |-> <<"key" \o ToString(i), Fill("v", MetaValueLen)>>]}

Payloads ==
    {[base EXCEPT !.error_message = m, !.stacktrace = st, !.metadata = md,
                  !.fingerprint = fp] :
        base \in {BarePayload, RichPayload}, m \in Messages, st \in Stacktraces,
        md \in Metadatas, fp \in {NoneStr, "fpA"}}
    \cup {TestPayload}

\* ------------------------------------------------------------ RateLimiter
\* the purge keeping the timestamp that sits exactly on the window start
Purge_inclusive(seq, t) == SelectSeq(seq, LAMBDA ts : ts >= t - window_seconds)

\* the list comprehension of is_allowed / remaining
Purge(seq, t) == SelectSeq(seq, LAMBDA ts : ts > t - window_seconds)

\* is_allowed with the capacity test off by one (> for >=)
is_allowed_off_by_one(reqs, key, t) ==
    LET purged == SelectSeq(reqs[key], LAMBDA ts : ts > t - window_seconds)
    IN  IF Len(purged) > max_requests
        THEN [result |-> FALSE, requests |-> [reqs EXCEPT ![key] = purged]]
        ELSE [result |-> TRUE,
              requests |-> [reqs EXCEPT ![key] = Append(purged, t)]]

\* is_allowed that loses the append of an admitted call
is_allowed_lost_append(reqs, key, t) ==
    LET purged == SelectSeq(reqs[key], LAMBDA ts : ts > t - window_seconds)
    IN  [result |-> Len(purged) < max_requests,
         requests |-> [reqs EXCEPT ![key] = purged]]

\* is_allowed that appends the current time on a denied call too
is_allowed_append_on_deny(reqs, key, t) ==
    LET purged == SelectSeq(reqs[key], LAMBDA ts : ts > t - window_seconds)
    IN  [result |-> Len(purged) < max_requests,
         requests |-> [reqs EXCEPT ![key] = Append(purged, t)]]

\* is_allowed with one capacity shared by all keys
is_allowed_global_cap(reqs, key, t) ==
    LET purged == SelectSeq(reqs[key], LAMBDA ts : ts > t - window_seconds)
        RECURSIVE Total(_)
        Total(K) == IF K = {} THEN 0
                    ELSE LET j == CHOOSE x \in K : TRUE
                         IN  Len(SelectSeq(reqs[j], LAMBDA ts : ts > t - window_seconds))
                                 + Total(K \ {j})
    IN  IF Total(DOMAIN reqs) >= max_requests
        THEN [result |-> FALSE, requests |-> [reqs EXCEPT ![key] = purged]]
        ELSE [result |-> TRUE,
              requests |-> [reqs EXCEPT ![key] = Append(purged, t)]]

\* is_allowed(key) at time t: the result and the map it leaves
is_allowed(reqs, key, t) ==
    LET purged == Purge(reqs[key], t)
    IN  IF Len(purged) >= max_requests
        THEN [result |-> FALSE, requests |-> [reqs EXCEPT ![key] = purged]]
        ELSE [result |-> TRUE,
              requests |-> [reqs EXCEPT ![key] = Append(purged, t)]]

\* remaining(key) at time t: the result and the map it leaves
remaining(reqs, key, t) ==
    LET purged == Purge(reqs[key], t)
        left == max_requests - Len(purged)
    IN  [result |-> IF left > 0 THEN left ELSE 0,
         requests |-> [reqs EXCEPT ![key] = purged]]

\* reset_time that returns the oldest stored timestamp itself
reset_time_no_window(reqs, key) ==
    IF reqs[key] = <<>> THEN None ELSE reqs[key][1]

\* reset_time(key): reads the stored list as it is
reset_time(reqs, key) ==
    IF reqs[key] = <<>> THEN None ELSE reqs[key][1] + window_seconds

\* ------------------------------------------------------------- history
\* number of True results of is_allowed(k) in the trailing window (t - W, t]
AdmittedIn(k, t) ==
    LET S == {s \in Times : s > t - window_seconds /\ s <= t}
        RECURSIVE Sum(_)
        Sum(T) == IF T = {} THEN 0
                  ELSE LET s == CHOOSE x \in T : TRUE
                       IN  admitLog[k][s] + Sum(T \ {s})
    IN  Sum(S)

\* the oldest True result of is_allowed(k) in the window (t - W, t], or None
OldestIn(k, t) ==
    LET S == {s \in Times : s > t - window_seconds /\ s <= t /\ admitLog[k][s] > 0}
    IN  IF S = {} THEN None ELSE CHOOSE s \in S : \A x \in S : s <= x

LogAdmit(k, t) == [admitLog EXCEPT ![k][t] = @ + 1]

NoRet == [op |-> "none", key |-> "global", at |-> 0, result |-> None]
\* phase: "none" | "denied" (is_allowed returned False) | "reset" (reset_time was
\* then called and returned `reset`) | "recovered" (the next is_allowed, made at
\* a time >= reset, returned True)
NoDenial == [phase |-> "none", reset |-> None]
\* a request: its endpoint and the handler's rate_key; exhausted (history) tells whether its
\* rate-limit key had N admissions in the window when it arrived; admitted_at is
\* the time is_allowed admitted it, kept while its delivery is in flight
NoReq == [kind |-> "none", rate_key |-> "global", exhausted |-> FALSE,
          admitted_at |-> None]
NoResp == [status |-> 0, remaining |-> None, reset |-> None, error_id |-> NoneStr]

DispatchInit ==
    /\ now = 0
    /\ _requests = [k \in Keys |-> <<>>]
    /\ admitLog = [k \in Keys |-> [t \in Times |-> 0]]
    /\ ret = NoRet
    /\ lastDenial = [k \in Keys |-> NoDenial]
    /\ pc = [p \in Procs |-> "idle"]
    /\ req = [p \in Procs |-> NoReq]
    /\ resp = [p \in Procs |-> NoResp]
    /\ sendCalls = [p \in Procs |-> 0]

Init ==
    /\ DispatchInit
    /\ payload = BarePayload
    /\ message = NoneStr

\* time.time() moves on
Tick(bound) ==
    /\ now < bound
    /\ now' = now + 1
    /\ UNCHANGED <<_requests, admitLog, ret, lastDenial, pc, req, resp, sendCalls, payload, message>>

\* --------------------------------------------- direct calls on the limiter
CallIsAllowed(k) ==
    LET r == is_allowed(_requests, k, now)
    IN  /\ _requests' = r.requests
        /\ admitLog' = IF r.result THEN LogAdmit(k, now) ELSE admitLog
        /\ ret' = [op |-> "is_allowed", key |-> k, at |-> now,
                   result |-> IF r.result THEN 1 ELSE 0]
        /\ lastDenial' = [lastDenial EXCEPT ![k] =
               IF ~r.result THEN [phase |-> "denied", reset |-> None]
               ELSE IF @.phase = "reset" /\ @.reset # None /\ now >= @.reset
                    THEN [@ EXCEPT !.phase = "recovered"]
                    ELSE NoDenial]
        /\ UNCHANGED <<now, pc, req, resp, sendCalls, payload, message>>

CallRemaining(k) ==
    LET r == remaining(_requests, k, now)
    IN  /\ _requests' = r.requests
        /\ ret' = [op |-> "remaining", key |-> k, at |-> now, result |-> r.result]
        /\ UNCHANGED <<now, admitLog, lastDenial, pc, req, resp, sendCalls, payload, message>>

CallResetTime(k) ==
    /\ ret' = [op |-> "reset_time", key |-> k, at |-> now,
               result |-> reset_time(_requests, k)]
    /\ lastDenial' = [lastDenial EXCEPT ![k] =
           IF @.phase = "denied"
           THEN [phase |-> "reset", reset |-> reset_time(_requests, k)]
           ELSE @]
    /\ UNCHANGED <<now, _requests, admitLog, pc, req, resp, sendCalls, payload, message>>

LimiterNext ==
    \/ Tick(MaxClock)
    \/ \E k \in Keys : CallIsAllowed(k)
    \/ \E k \in Keys : CallRemaining(k)
    \/ \E k \in Keys : CallResetTime(k)

LimiterSpec == Init /\ [][LimiterNext]_vars

\* ----------------------------------------------------------------- webhook
\* verify_webhook_secret: 0 when the header is accepted, else the HTTP error
verify_webhook_secret(api_key) ==
    IF api_key = NoneStr \/ api_key = ""
    THEN HTTP_401_UNAUTHORIZED
    ELSE IF api_key # WEBHOOK_SECRET
         THEN HTTP_403_FORBIDDEN
         ELSE 0

\* rate_key = payload.fingerprint or "global"
RateKey(fingerprint) ==
    IF fingerprint = NoneStr \/ fingerprint = "" THEN "global" ELSE fingerprint

\* the 429 detail built from the limiter calls left at their default key
rate_limited_detail_default_key(reqs, rate_key, t) ==
    LET rem == remaining(reqs, "global", t)
    IN  [remaining |-> rem.result,
         reset |-> reset_time(rem.requests, "global"),
         requests |-> rem.requests]

\* the detail of the 429 response: remaining(rate_key) read at time t, then
\* reset_time(rate_key), and the map the two calls leave
rate_limited_detail(reqs, rate_key, t) ==
    LET rem == remaining(reqs, rate_key, t)
    IN  [remaining |-> rem.result,
         reset |-> reset_time(rem.requests, rate_key),
         requests |-> rem.requests]

\* send_error_notification that trusts the status code and never reads "ok"
send_error_notification_status_only(o) ==
    o.kind = "response" /\ o.status = 200 /\ o.ok # "badjson"

\* send_error_notification after the post came back with outcome o:
\* True only for status 200 with a body whose "ok" is truthy
send_error_notification(o) ==
    IF o.kind = "timeout" THEN FALSE
    ELSE IF o.kind = "error" THEN FALSE
    ELSE IF o.status # 200 THEN FALSE
    ELSE IF o.ok = "badjson" THEN FALSE
    ELSE IF o.ok # "true" THEN FALSE
    ELSE TRUE

\* a rejection that comes after the admission test: the handler asks the
\* limiter before the header is checked
Rejected_after_admission(p, kind, api_key) ==
    LET r == is_allowed(_requests, "global", now)
    IN  /\ pc' = [pc EXCEPT ![p] = "done"]
        /\ req' = [req EXCEPT ![p] = [NoReq EXCEPT !.kind = kind]]
        /\ resp' = [resp EXCEPT ![p] =
               [NoResp EXCEPT !.status = verify_webhook_secret(api_key)]]
        /\ _requests' = r.requests
        /\ admitLog' = IF r.result THEN LogAdmit("global", now) ELSE admitLog
        /\ UNCHANGED <<now, ret, lastDenial, sendCalls, payload, message>>

\* the dependency rejected the header: the handler body never runs
Rejected(p, kind, api_key) ==
    /\ pc' = [pc EXCEPT ![p] = "done"]
    /\ req' = [req EXCEPT ![p] = [NoReq EXCEPT !.kind = kind]]
    /\ resp' = [resp EXCEPT ![p] = [NoResp EXCEPT !.status = verify_webhook_secret(api_key)]]
    /\ UNCHANGED <<now, _requests, admitLog, ret, lastDenial, sendCalls, payload, message>>

\* POST /webhook/error up to the await of the provider call.  d is the time
\* that passes between the clock read of is_allowed and that of remaining.
ReceiveError(p, fingerprint, api_key, tok) ==
    /\ pc[p] = "idle"
    /\ IF verify_webhook_secret(api_key) # 0
       THEN Rejected(p, "error", api_key)
       ELSE LET rate_key == RateKey(fingerprint)
                r == is_allowed(_requests, rate_key, now)
                thisReq == [kind |-> "error", rate_key |-> rate_key,
                            exhausted |-> AdmittedIn(rate_key, now) >= max_requests,
                            admitted_at |-> IF r.result THEN now ELSE None]
            IN  /\ req' = [req EXCEPT ![p] = thisReq]
                /\ UNCHANGED <<ret, lastDenial, payload, message>>
                /\ IF ~r.result
                   THEN /\ \E d \in 0..1 :
                             LET det == rate_limited_detail(r.requests, rate_key, now + d)
                             IN  /\ now + d <= MaxDispatchClock
                                 /\ now' = now + d
                                 /\ _requests' = det.requests
                                 /\ resp' = [resp EXCEPT ![p] =
                                        [NoResp EXCEPT !.status = HTTP_429_TOO_MANY_REQUESTS,
                                                       !.remaining = det.remaining,
                                                       !.reset = det.reset]]
                        /\ pc' = [pc EXCEPT ![p] = "done"]
                        /\ UNCHANGED <<admitLog, sendCalls>>
                   ELSE /\ _requests' = r.requests
                        /\ admitLog' = LogAdmit(rate_key, now)
                        /\ resp' = [resp EXCEPT ![p] = [NoResp EXCEPT !.error_id = tok]]
                        /\ sendCalls' = [sendCalls EXCEPT ![p] = @ + 1]
                        /\ pc' = [pc EXCEPT ![p] = "sending"]
                        /\ UNCHANGED now

\* test_notification written like receive_error: it asks the limiter first
TestNotification_limited(p, api_key, tok) ==
    /\ pc[p] = "idle"
    /\ verify_webhook_secret(api_key) = 0
    /\ LET r == is_allowed(_requests, "global", now)
       IN  /\ req' = [req EXCEPT ![p] =
                  [kind |-> "test", rate_key |-> RateKey(NoneStr),
                   exhausted |-> AdmittedIn("global", now) >= max_requests,
                   admitted_at |-> None]]
           /\ _requests' = r.requests
           /\ admitLog' = IF r.result THEN LogAdmit("global", now) ELSE admitLog
           /\ IF r.result
              THEN /\ resp' = [resp EXCEPT ![p] = [NoResp EXCEPT !.error_id = tok]]
                   /\ sendCalls' = [sendCalls EXCEPT ![p] = @ + 1]
                   /\ pc' = [pc EXCEPT ![p] = "sending"]
              ELSE /\ resp' = [resp EXCEPT ![p] =
                          [NoResp EXCEPT !.status = HTTP_429_TOO_MANY_REQUESTS]]
                   /\ pc' = [pc EXCEPT ![p] = "done"]
                   /\ UNCHANGED sendCalls
           /\ UNCHANGED <<now, ret, lastDenial, payload, message>>

\* POST /webhook/test up to the await of the provider call
TestNotification(p, api_key, tok) ==
    /\ pc[p] = "idle"
    /\ IF verify_webhook_secret(api_key) # 0
       THEN Rejected(p, "test", api_key)
       ELSE /\ req' = [req EXCEPT ![p] =
                   [kind |-> "test", rate_key |-> RateKey(NoneStr),
                    exhausted |-> AdmittedIn(RateKey(NoneStr), now) >= max_requests,
                    admitted_at |-> None]]
            /\ resp' = [resp EXCEPT ![p] = [NoResp EXCEPT !.error_id = tok]]
            /\ sendCalls' = [sendCalls EXCEPT ![p] = @ + 1]
            /\ pc' = [pc EXCEPT ![p] = "sending"]
            /\ UNCHANGED <<now, _requests, admitLog, ret, lastDenial, payload, message>>

\* a delivery step that gives the admission back when the delivery failed
DeliveryResponse_refund(p, o) ==
    /\ pc[p] = "sending"
    /\ resp' = [resp EXCEPT ![p] =
           [@ EXCEPT !.status = IF send_error_notification(o)
                                THEN HTTP_200_OK ELSE HTTP_502_BAD_GATEWAY]]
    /\ req' = [req EXCEPT ![p].admitted_at = None]
    /\ pc' = [pc EXCEPT ![p] = "done"]
    /\ _requests' =
          IF ~send_error_notification(o) /\ req[p].kind = "error"
             /\ _requests[req[p].rate_key] # <<>>
          THEN [_requests EXCEPT ![req[p].rate_key] =
                    SubSeq(@, 1, Len(@) - 1)]
          ELSE _requests
    /\ UNCHANGED <<now, admitLog, ret, lastDenial, sendCalls, payload, message>>

\* a delivery step that posts once more after a failed post
DeliveryResponse_retry(p, o) ==
    /\ pc[p] = "sending"
    /\ IF ~send_error_notification(o) /\ sendCalls[p] < 2
       THEN /\ sendCalls' = [sendCalls EXCEPT ![p] = @ + 1]
            /\ UNCHANGED <<pc, req, resp>>
       ELSE /\ resp' = [resp EXCEPT ![p] =
                   [@ EXCEPT !.status = IF send_error_notification(o)
                                        THEN HTTP_200_OK ELSE HTTP_502_BAD_GATEWAY]]
            /\ req' = [req EXCEPT ![p].admitted_at = None]
            /\ pc' = [pc EXCEPT ![p] = "done"]
            /\ UNCHANGED sendCalls
    /\ UNCHANGED <<now, _requests, admitLog, ret, lastDenial, payload, message>>

\* the awaited post came back with outcome o: the rest of send_error_notification
\* and of the handler (200 with the error id, or 502)
DeliveryResponse(p, o) ==
    /\ pc[p] = "sending"
    /\ resp' = [resp EXCEPT ![p] =
           [@ EXCEPT !.status = IF send_error_notification(o)
                                THEN HTTP_200_OK ELSE HTTP_502_BAD_GATEWAY]]
    /\ req' = [req EXCEPT ![p].admitted_at = None]
    /\ pc' = [pc EXCEPT ![p] = "done"]
    /\ UNCHANGED <<now, _requests, admitLog, ret, lastDenial, sendCalls, payload, message>>

\* the response went out; the slot serves the next request
Recycle(p) ==
    /\ pc[p] = "done"
    /\ pc' = [pc EXCEPT ![p] = "idle"]
    /\ req' = [req EXCEPT ![p] = NoReq]
    /\ resp' = [resp EXCEPT ![p] = NoResp]
    /\ sendCalls' = [sendCalls EXCEPT ![p] = 0]
    /\ UNCHANGED <<now, _requests, admitLog, ret, lastDenial, payload, message>>

Next ==
    \/ Tick(MaxDispatchClock)
    \/ \E p \in Procs, fp \in Fingerprints, a \in ApiKeys, tok \in Tokens :
           ReceiveError(p, fp, a, tok)
    \/ \E p \in Procs, a \in ApiKeys, tok \in Tokens : TestNotification(p, a, tok)
    \/ \E p \in Procs, o \in Outcomes : DeliveryResponse(p, o)
    \/ \E p \in Procs : Recycle(p)

Spec == Init /\ [][Next]_vars

\* --------------------------------------------------------- formatter runs
\* _format_message is pure: each run starts from one payload and applies it
FormatInit ==
    /\ DispatchInit
    /\ payload \in Payloads
    /\ message = NoneStr

FormatMessage(error_id) ==
    /\ message = NoneStr
    /\ message' = _format_message(payload, error_id)
    /\ UNCHANGED <<now, _requests, admitLog, ret, lastDenial, pc, req, resp, sendCalls, payload>>

FormatNext == \E error_id \in Tokens : FormatMessage(error_id)

FormatSpec == FormatInit /\ [][FormatNext]_vars

\* ======================================================= RateLimiter claims
\* what reset_time(k) is claimed to return at time t: the oldest admission of k
\* still inside the window, plus W; None when the window holds none
ExpectedReset(k, t) ==
    IF OldestIn(k, t) = None THEN None ELSE OldestIn(k, t) + window_seconds

Max0(n) == IF n > 0 THEN n ELSE 0

TotalAdmitted(k) ==
    LET RECURSIVE Sum(_)
        Sum(T) == IF T = {} THEN 0
                  ELSE LET s == CHOOSE x \in T : TRUE
                       IN  admitLog[k][s] + Sum(T \ {s})
    IN  Sum(Times)

\* C1: on every key, the number of is_allowed calls that returned True within
\* any trailing window (t - W, t] never exceeds N.
C1_WindowNeverExceedsCapacity ==
    \A k \in Keys, t \in Times : AdmittedIn(k, t) <= max_requests

\* a key whose window is full, whose last call was denied, and which has also
\* admitted calls that have since left the window
C1_Witness ==
    /\ ret.op = "is_allowed" /\ ret.result = 0 /\ ret.at = now
    /\ AdmittedIn(ret.key, now) = max_requests
    /\ TotalAdmitted(ret.key) > max_requests

\* C7 (as claimed): reset_time(key), whenever it is called, returns t0 + W for
\* the oldest admission t0 of the key still inside the current window, and None
\* when the key has no admission inside the current window.
C7_ResetTimeTracksWindow ==
    (ret.op = "reset_time" /\ ret.at = now)
        => ret.result = ExpectedReset(ret.key, now)

\* C10 (as claimed): every stored admission timestamp lies within
\* [now - W, now], in every reachable state.
C10_StoredWithinWindowAlways ==
    \A k \in Keys : \A i \in 1..Len(_requests[k]) :
        /\ _requests[k][i] >= now - window_seconds
        /\ _requests[k][i] <= now

\* C10 (amended): every stored timestamp is at most now, and right after an
\* is_allowed or remaining call on a key every timestamp stored for that key
\* lies within (now - W, now]; older ones stay stored until such a call.
C10_StoredWithinWindowAfterCall ==
    /\ \A k \in Keys : \A i \in 1..Len(_requests[k]) : _requests[k][i] <= now
    /\ (ret.op \in {"is_allowed", "remaining"} /\ ret.at = now)
          => \A i \in 1..Len(_requests[ret.key]) :
                 _requests[ret.key][i] > now - window_seconds

\* a call on a key has just purged an admission that had left the window, while
\* another key still stores one that has left it
C10_Witness ==
    /\ ret.op \in {"is_allowed", "remaining"} /\ ret.at = now
    /\ \E s \in Times : s <= now - window_seconds /\ admitLog[ret.key][s] > 0
    /\ \E k \in Keys : \E i \in 1..Len(_requests[k]) :
           _requests[k][i] <= now - window_seconds

\* C12: after is_allowed(k) was denied and reset_time(k) then returned r, the
\* first is_allowed(k) made at a time >= r returns True, whatever calls on
\* remaining, reset_time or other keys were made in between.
C12_RecoverableAfterReset ==
    [][\A k \in Keys :
         (/\ lastDenial[k].phase = "reset" /\ lastDenial[k].reset # None
          /\ now >= lastDenial[k].reset
          /\ CallIsAllowed(k))
         => ret'.result = 1]_vars

\* a key was denied, reported a reset time, and its next is_allowed, made once
\* that time had come, was admitted
C12_Witness ==
    \E k \in Keys :
        /\ lastDenial[k].phase = "recovered" /\ now >= lastDenial[k].reset
        /\ ret.op = "is_allowed" /\ ret.key = k /\ ret.result = 1

\* C14: is_allowed(k) returns True and appends the current time exactly when
\* the purged sequence holds fewer than N entries (equally: when the window
\* holds fewer than N admissions); a denied call appends nothing, records no
\* admission and leaves the in-window entries of k as they were.
C14_AppendExactlyWhenRoom ==
    [][\A k \in Keys :
         CallIsAllowed(k)
         => LET purged == Purge(_requests[k], now)
            IN  /\ (ret'.result = 1) <=> (Len(purged) < max_requests)
                /\ (ret'.result = 1) <=> (AdmittedIn(k, now) < max_requests)
                /\ ret'.result = 1
                      => /\ _requests'[k] = Append(purged, now)
                         /\ admitLog'[k][now] = admitLog[k][now] + 1
                /\ ret'.result = 0
                      => /\ Purge(_requests'[k], now) = purged
                         /\ Len(_requests'[k]) <= Len(_requests[k])
                         /\ admitLog' = admitLog]_vars

\* a call was just denied on a key whose N stored entries come from two
\* different times
C14_Witness ==
    /\ ret.op = "is_allowed" /\ ret.result = 0 /\ ret.at = now
    /\ Len(_requests[ret.key]) = max_requests
    /\ _requests[ret.key][1] < _requests[ret.key][max_requests]

\* C15: a call of is_allowed, remaining or reset_time on key k leaves the
\* sequence and the admissions of every other key as they were, and returns
\* what it would return if no other key had ever been used.
C15_KeysIndependent ==
    [][\A k \in Keys :
         (CallIsAllowed(k) \/ CallRemaining(k) \/ CallResetTime(k))
         => LET alone == [j \in Keys |-> IF j = k THEN _requests[k] ELSE <<>>]
            IN  /\ \A j \in Keys \ {k} :
                       _requests'[j] = _requests[j] /\ admitLog'[j] = admitLog[j]
                /\ ret'.op = "is_allowed"
                      => /\ (ret'.result = 1) <=> (AdmittedIn(k, now) < max_requests)
                         /\ (ret'.result = 1) <=> is_allowed(alone, k, now).result
                /\ ret'.op = "remaining"
                      => /\ ret'.result = Max0(max_requests - AdmittedIn(k, now))
                         /\ ret'.result = remaining(alone, k, now).result
                /\ ret'.op = "reset_time"
                      => ret'.result = reset_time(alone, k)]_vars

\* a call was just admitted on one key while another key's window is full
C15_Witness ==
    /\ ret.op = "is_allowed" /\ ret.result = 1 /\ ret.at = now
    /\ \E j \in Keys \ {ret.key} : Len(Purge(_requests[j], now)) = max_requests

\* C16 (as claimed): remaining(k) returns max(0, N - admissions of k in the
\* window), never a negative number, 0 right after a denied is_allowed(k) at the
\* same time, and has a read-only effect: after it, remaining(k) at the same
\* time, is_allowed(k) at any later time and reset_time(k) return what they
\* would have returned without it.
C16_RemainingReadOnly ==
    [][\A k \in Keys :
         CallRemaining(k)
         => /\ ret'.result = Max0(max_requests - AdmittedIn(k, now))
            /\ ret'.result >= 0
            /\ (ret.op = "is_allowed" /\ ret.key = k /\ ret.at = now /\ ret.result = 0)
                  => ret'.result = 0
            /\ remaining(_requests', k, now).result = ret'.result
            /\ \A t \in now..MaxClock :
                   is_allowed(_requests', k, t).result = is_allowed(_requests, k, t).result
            /\ reset_time(_requests', k) = reset_time(_requests, k)]_vars

\* ========================================================== dispatch claims
\* handler p has just left "idle": its request was taken up in this step
Started(p) == pc[p] = "idle" /\ pc'[p] # "idle"

AuthFailed(status) == status \in {HTTP_401_UNAUTHORIZED, HTTP_403_FORBIDDEN}

\* the handlers whose delivery is in flight on key k with an admission that is
\* still inside the window
InFlight(k) ==
    {p \in Procs : /\ pc[p] = "sending" /\ req[p].kind = "error"
                   /\ req[p].rate_key = k
                   /\ req[p].admitted_at > now - window_seconds}

\* C2: with handlers running concurrently on the same key, whatever their
\* interleaving, a key never has more than N admissions inside the window:
\* neither granted (history), nor stored, nor in flight.
C2_ConcurrentAdmissionsBounded ==
    \A k \in Keys :
        /\ \A t \in Times : AdmittedIn(k, t) <= max_requests
        /\ Len(_requests[k]) <= max_requests
        /\ Cardinality(InFlight(k)) <= max_requests

\* N deliveries in flight at once on one key, all admitted in the same window
C2_Witness ==
    \E k \in Keys :
        /\ Cardinality(InFlight(k)) = max_requests
        /\ AdmittedIn(k, now) = max_requests

\* C3: a dispatch arriving while its key has N admissions in the window ends as
\* 429; every 429 carries remaining(rate_key) and reset_time(rate_key) of its own
\* key as of the time they are read, generates no error id and issues no post.
C3_RateLimitedDispatch ==
    [][\A p \in Procs :
         (Started(p) /\ req'[p].kind = "error" /\ ~AuthFailed(resp'[p].status))
         => LET k == req'[p].rate_key
            IN  /\ AdmittedIn(k, now) >= max_requests
                      => resp'[p].status = HTTP_429_TOO_MANY_REQUESTS
                /\ resp'[p].status = HTTP_429_TOO_MANY_REQUESTS
                      => /\ pc'[p] = "done"
                         /\ AdmittedIn(k, now) >= max_requests
                         /\ resp'[p].remaining = Max0(max_requests - AdmittedIn(k, now'))
                         /\ resp'[p].reset = ExpectedReset(k, now')
                         /\ resp'[p].error_id = NoneStr
                         /\ sendCalls'[p] = 0
                         /\ admitLog' = admitLog]_vars

\* a dispatch on key fpA was answered 429 with remaining 0 and a reset time,
\* without an error id or a post, while the global key still had quota
C3_Witness ==
    \E p \in Procs :
        /\ pc[p] = "done" /\ req[p].kind = "error" /\ req[p].rate_key = "fpA"
        /\ resp[p].status = HTTP_429_TOO_MANY_REQUESTS
        /\ resp[p].remaining = 0 /\ resp[p].reset # None
        /\ resp[p].error_id = NoneStr /\ sendCalls[p] = 0
        /\ AdmittedIn("global", now) < max_requests

\* C4 (as claimed): a test notification issued while the global key's window is
\* exhausted is denied and never reaches the delivery capability.
C4_TestIsRateLimited ==
    \A p \in Procs :
        (req[p].kind = "test" /\ req[p].exhausted)
            => (sendCalls[p] = 0 /\ pc[p] # "sending")

\* C4 (amended): test_notification never consults or changes the rate limiter;
\* once authenticated it always gets an error id and issues its one post.
C4_TestBypassesRateLimit ==
    [][\A p \in Procs :
         (Started(p) /\ req'[p].kind = "test")
         => /\ _requests' = _requests
            /\ admitLog' = admitLog
            /\ ~AuthFailed(resp'[p].status)
                  => /\ pc'[p] = "sending"
                     /\ sendCalls'[p] = 1
                     /\ resp'[p].error_id # NoneStr]_vars

\* a test notification that arrived while the global key was exhausted was delivered
C4_Witness ==
    \E p \in Procs :
        /\ req[p].kind = "test" /\ req[p].exhausted
        /\ pc[p] = "done" /\ resp[p].status = HTTP_200_OK /\ sendCalls[p] = 1

\* C6: when the post comes back, the handler answers 200 exactly when the
\* outcome is a response with status 200 and ok true; a timeout, a transport
\* error, another status, or a 200 body without a true ok all give 502.
C6_DeliveryClassification ==
    [][\A p \in Procs :
         (pc[p] = "sending" /\ pc'[p] # "sending")
         => \A o \in Outcomes :
                DeliveryResponse(p, o)
                => /\ pc'[p] = "done"
                   /\ resp'[p].status =
                          IF o.kind = "response" /\ o.status = 200 /\ o.ok = "true"
                          THEN HTTP_200_OK ELSE HTTP_502_BAD_GATEWAY]_vars

\* one admitted dispatch ended 502 and another ended 200
C6_Witness ==
    \E p, q \in Procs :
        /\ pc[p] = "done" /\ req[p].kind = "error"
        /\ resp[p].status = HTTP_502_BAD_GATEWAY
        /\ pc[q] = "done" /\ req[q].kind = "error"
        /\ resp[q].status = HTTP_200_OK

\* C8: the step that consumes the delivery outcome leaves the limiter as it
\* was, and the admission of that dispatch, while inside the window, stays stored.
C8_DeliveryLeavesLimiter ==
    [][\A p \in Procs :
         (pc[p] = "sending" /\ pc'[p] = "done")
         => /\ _requests' = _requests
            /\ admitLog' = admitLog
            /\ (req[p].kind = "error" /\ req[p].admitted_at > now - window_seconds)
                  => \E i \in 1..Len(_requests'[req[p].rate_key]) :
                         _requests'[req[p].rate_key][i] = req[p].admitted_at]_vars

\* a dispatch whose delivery failed, with its key's window still full
C8_Witness ==
    \E p \in Procs :
        /\ pc[p] = "done" /\ req[p].kind = "error"
        /\ resp[p].status = HTTP_502_BAD_GATEWAY
        /\ Len(Purge(_requests[req[p].rate_key], now)) = max_requests

\* C9: a request never has more than one post issued for it; an admitted
\* dispatch has exactly one, while it is in flight and after it has ended 200 or 502.
C9_ExactlyOneDeliveryAttempt ==
    \A p \in Procs :
        /\ sendCalls[p] <= 1
        /\ pc[p] = "sending" => sendCalls[p] = 1
        /\ (pc[p] = "done" /\ resp[p].status \in {HTTP_200_OK, HTTP_502_BAD_GATEWAY})
              => sendCalls[p] = 1
        /\ (pc[p] = "done" /\ resp[p].status \notin {HTTP_200_OK, HTTP_502_BAD_GATEWAY})
              => sendCalls[p] = 0

\* a dispatch ended 502 after its single post, and nothing is in flight
C9_Witness ==
    /\ \E p \in Procs : /\ pc[p] = "done" /\ resp[p].status = HTTP_502_BAD_GATEWAY
                         /\ sendCalls[p] = 1
    /\ \A p \in Procs : pc[p] # "sending"

\* C17 (as claimed): a dispatch of a record that carries a fingerprint, whatever
\* its value ("" and "global" included), leaves the sequence and the admissions
\* of the global key as they were, and is never answered 429 on account of the
\* global key.
C17_FingerprintKeepsOffGlobalQuota ==
    [][\A p \in Procs, fp \in Fingerprints \ {NoneStr}, tok \in Tokens :
         ReceiveError(p, fp, WEBHOOK_SECRET, tok)
         => /\ _requests'["global"] = _requests["global"]
            /\ admitLog'["global"] = admitLog["global"]
            /\ resp'[p].status = HTTP_429_TOO_MANY_REQUESTS
                  => req'[p].rate_key # "global"]_vars

\* C18: a request whose secret header is missing (401) or wrong (403), on
\* either endpoint, ends at once with that status; it leaves the rate limiter
\* as it was for every key, gets no error id and issues no post.
C18_AuthPrecedesAdmission ==
    [][\A p \in Procs, a \in ApiKeys, tok \in Tokens :
         (/\ a # WEBHOOK_SECRET
          /\ \/ \E fp \in Fingerprints : ReceiveError(p, fp, a, tok)
             \/ TestNotification(p, a, tok))
         => /\ resp'[p].status = IF a \in {NoneStr, ""} THEN HTTP_401_UNAUTHORIZED
                                                       ELSE HTTP_403_FORBIDDEN
            /\ pc'[p] = "done"
            /\ _requests' = _requests
            /\ admitLog' = admitLog
            /\ resp'[p].error_id = NoneStr
            /\ sendCalls'[p] = 0]_vars

\* one request was answered 401 and another 403, neither with an error id or a
\* post, while the global key still has its N admissions stored
C18_Witness ==
    /\ \E p, q \in Procs :
           /\ pc[p] = "done" /\ resp[p].status = HTTP_401_UNAUTHORIZED
           /\ pc[q] = "done" /\ resp[q].status = HTTP_403_FORBIDDEN
           /\ resp[p].error_id = NoneStr /\ resp[q].error_id = NoneStr
           /\ sendCalls[p] = 0 /\ sendCalls[q] = 0
    /\ Len(_requests["global"]) = max_requests

\* ========================================================= formatter claims
\* C5 (as claimed): the message _format_message returns is never longer than
\* 4096 characters.
C5_MessageWithinLimit ==
    message # NoneStr => Len(message) <= TELEGRAM_LIMIT

\* text starts with s / text has s somewhere in it
StartsWith(text, s) == Len(s) <= Len(text) /\ SubSeq(text, 1, Len(s)) = s

Contains(text, s) ==
    \E i \in 1..(Len(text) - Len(s) + 1) : SubSeq(text, i, i + Len(s) - 1) = s

\* the two footer lines as they stand in an uncut message
TimestampLine(pl) == "<i>" \o Strftime(pl.timestamp) \o "</i>"
FingerprintLine(pl) == "Fingerprint: <code>" \o _escape(pl.fingerprint) \o "</code>"

\* C11 (as claimed): whatever the record, the returned message still has the
\* header line (severity badge and error id) at its start, the timestamp line,
\* and the fingerprint line when the record has a fingerprint, each whole.
C11_FixedSegmentsIntact ==
    message # NoneStr
        => /\ \E error_id \in Tokens : StartsWith(message, HeaderLine(payload, error_id))
           /\ Contains(message, TimestampLine(payload))
           /\ Truthy(payload.fingerprint) => Contains(message, FingerprintLine(payload))

\* what the stacktrace block is claimed to hold for the raw trace st: the first
\* MAX_STACKTRACE_LENGTH characters and the marker, or the whole trace, escaped
ExpectedTraceBlock(st) ==
    "<pre>"
        \o (IF Len(st) > MAX_STACKTRACE_LENGTH
            THEN _escape(Prefix(st, MAX_STACKTRACE_LENGTH)) \o "\n... (truncated)"
            ELSE _escape(st))
        \o "</pre>"

\* the stacktrace block among the parts: the third (with a fingerprint line the
\* fourth) from the end
StacktraceBlock(pl, error_id) ==
    LET parts == Parts(pl, error_id)
    IN  parts[Len(parts) - (IF Truthy(pl.fingerprint) THEN 3 ELSE 2)]

\* C13 (as claimed): for every record with a stacktrace, the returned message
\* has the stacktrace block with exactly the first ceiling characters of the
\* trace and the truncation marker when the trace is longer than the ceiling,
\* and with the whole trace and no marker otherwise.
C13_StacktraceBlockRendered ==
    (message # NoneStr /\ Truthy(payload.stacktrace))
        => Contains(message,
                    "<b>Stacktrace</b>\n" \o ExpectedTraceBlock(payload.stacktrace) \o "\n")

\* C13 (amended): the stacktrace block as it is assembled always holds that
\* text, and the returned message has it whenever the assembled message is not
\* longer than 4096 characters; a longer one is cut at 4080, block included.
C13_StacktraceBlockBeforeFinalCut ==
    (message # NoneStr /\ Truthy(payload.stacktrace))
        => /\ \A error_id \in Tokens :
                  StacktraceBlock(payload, error_id)
                      = ExpectedTraceBlock(payload.stacktrace)
           /\ Len(message) <= TELEGRAM_LIMIT
                 => Contains(message,
                             "<b>Stacktrace</b>\n"
                                 \o ExpectedTraceBlock(payload.stacktrace) \o "\n")

\* a trace just over the ceiling was formatted into a message short enough to
\* escape the final cut, and the message shows the marker after the cut trace
C13_Witness ==
    /\ message # NoneStr
    /\ Len(payload.stacktrace) > MAX_STACKTRACE_LENGTH
    /\ Len(message) <= TELEGRAM_LIMIT
    /\ Contains(message, "s\n... (truncated)</pre>")
====
